---- MODULE Spec2Model ----
(***************************************************************************)
(* sqlsmith: the dependency graph engine of the SQL schema merger.         *)
(*                                                                         *)
(* A directory of SQL files is parsed into statements, the statements are  *)
(* validated (unique names, in-file order, no circular dependency),        *)
(* sorted with Kahn's algorithm and merged into one text.                  *)
(*                                                                         *)
(* JavaScript Set and Map iterate in insertion order, so a Set is a        *)
(* sequence without repetition and a Map is a function whose values keep   *)
(* that order.  A text (file content, merged output) is the sequence of    *)
(* the names of the objects its CREATE statements define, in text order.   *)
(***************************************************************************)
EXTENDS Integers, Sequences, FiniteSets, TLC

\* ------------------------------------------------------------------ bounds
NameOrder == <<"a", "b", "c">>
Names == {NameOrder[i] : i \in DOMAIN NameOrder}
MaxFiles == 2
\* the dependsOn lists of a directory hold at most MaxDeps entries together
MaxDeps == 4
\* a directory declares at most as many statements as there are names
MaxStmts == Cardinality(Names)

InputDir == "dir"
FileNames == <<"f1.sql", "f2.sql", "f3.sql", "f4.sql", "f5.sql">>

\* ----------------------------------------------------------------- helpers
Range(s) == {s[i] : i \in DOMAIN s}

\* Array.prototype.indexOf / includes, 0-based, -1 when absent
IndexOf(s, x) ==
    IF x \in Range(s)
    THEN (CHOOSE i \in DOMAIN s : s[i] = x /\ \A j \in 1..(i - 1) : s[j] # x) - 1
    ELSE -1

\* Slice that keeps the whole array
SliceWhole(s, start) == s

\* Array.prototype.slice(start): a negative start counts from the end
Slice(s, start) ==
    LET from == IF start < 0
                THEN (IF Len(s) + start < 0 THEN 0 ELSE Len(s) + start)
                ELSE start
    IN  SubSeq(s, from + 1, Len(s))

\* SetAdd that adds a member once more
SetAddAgain(s, x) == Append(s, x)

\* Set.prototype.add on an insertion-ordered set
SetAdd(s, x) == IF x \in Range(s) THEN s ELSE Append(s, x)

\* Map.prototype.get(k) || new Set()
MapGet(m, k) == IF k \in DOMAIN m THEN m[k] ELSE <<>>

\* Map.prototype.set
MapSet(m, k, v) == [x \in (DOMAIN m) \cup {k} |-> IF x = k THEN v ELSE m[x]]

EmptyMap == [x \in {} |-> <<>>]

\* filePath.split('/').pop() || filePath, a path being its list of components
BaseName(p) == IF Len(p) = 0 \/ p[Len(p)] = "" THEN p ELSE p[Len(p)]

\* join(directoryPath, entry)
PathOf(i) == <<InputDir, FileNames[i]>>

RECURSIVE Flatten(_)
Flatten(ss) == IF ss = <<>> THEN <<>> ELSE Head(ss) \o Flatten(Tail(ss))

\* allStatements.push(...file.statements) over all files
AllStatements(files) == Flatten([i \in DOMAIN files |-> files[i].statements])

\* ------------------------------------------------------------- the parser
\* One processor's extractStatements: the statements of its type, in AST order
ExtractStatements(decls, type, path) ==
    LET mine == SelectSeq(decls, LAMBDA d : d.type = type)
    IN  [i \in DOMAIN mine |->
            [name |-> mine[i].name, type |-> type,
             dependsOn |-> mine[i].dependsOn, filePath |-> path,
             content |-> <<>>]]

\* getStatementProcessors: table, view, sequence, in this order
Processors == <<"table", "view", "sequence">>

\* parseContent: every processor in turn over the whole AST
ParseContent(decls, path) ==
    Flatten([p \in DOMAIN Processors |->
                ExtractStatements(decls, Processors[p], path)])

\* parseFile: every statement gets the full file content
ParseFile(file) ==
    LET content == [i \in DOMAIN file.decls |-> file.decls[i].name]
        stmts == ParseContent(file.decls, file.path)
    IN  [path |-> file.path,
         content |-> content,
         statements |-> [i \in DOMAIN stmts |->
                            [stmts[i] EXCEPT !.content = content]]]

\* parseDirectory: the files in sorted path order
ParseDirectory(d) == [i \in DOMAIN d |-> ParseFile(d[i])]

\* ------------------------------------------------------ dependency analyzer
EmptyGraph == [nodes |-> <<>>, edges |-> EmptyMap, reversedEdges |-> EmptyMap]

\* AddDependencies that does not add the dependency's name to the nodes
RECURSIVE AddDependenciesNoNode(_, _, _)
AddDependenciesNoNode(g, name, deps) ==
    IF deps = <<>> THEN g
    ELSE LET depName == Head(deps)
             rev == IF depName \in DOMAIN g.reversedEdges
                    THEN g.reversedEdges
                    ELSE MapSet(g.reversedEdges, depName, <<>>)
             g1 == [nodes |-> g.nodes,
                    edges |-> MapSet(g.edges, name, SetAdd(g.edges[name], depName)),
                    reversedEdges |-> MapSet(rev, depName, SetAdd(rev[depName], name))]
         IN  AddDependenciesNoNode(g1, name, Tail(deps))

\* AddDependencies that does not mirror a self-reference into reversedEdges
RECURSIVE AddDependenciesNoSelfMirror(_, _, _)
AddDependenciesNoSelfMirror(g, name, deps) ==
    IF deps = <<>> THEN g
    ELSE LET depName == Head(deps)
             rev == IF depName \in DOMAIN g.reversedEdges
                    THEN g.reversedEdges
                    ELSE MapSet(g.reversedEdges, depName, <<>>)
             g1 == [nodes |-> SetAdd(g.nodes, depName),
                    edges |-> MapSet(g.edges, name, SetAdd(g.edges[name], depName)),
                    reversedEdges |-> IF depName = name THEN rev
                                      ELSE MapSet(rev, depName, SetAdd(rev[depName], name))]
         IN  AddDependenciesNoSelfMirror(g1, name, Tail(deps))

\* the inner loop of buildStatementGraph over one statement's dependsOn
RECURSIVE AddDependencies(_, _, _)
AddDependencies(g, name, deps) ==
    IF deps = <<>> THEN g
    ELSE LET depName == Head(deps)
             rev == IF depName \in DOMAIN g.reversedEdges
                    THEN g.reversedEdges
                    ELSE MapSet(g.reversedEdges, depName, <<>>)
             g1 == [nodes |-> SetAdd(g.nodes, depName),
                    edges |-> MapSet(g.edges, name, SetAdd(g.edges[name], depName)),
                    reversedEdges |-> MapSet(rev, depName, SetAdd(rev[depName], name))]
         IN  AddDependencies(g1, name, Tail(deps))

RECURSIVE BuildFrom(_, _)
BuildFrom(g, statements) ==
    IF statements = <<>> THEN g
    ELSE LET st == Head(statements)
             g1 == [nodes |-> SetAdd(g.nodes, st.name),
                    edges |-> IF st.name \in DOMAIN g.edges THEN g.edges
                              ELSE MapSet(g.edges, st.name, <<>>),
                    reversedEdges |-> IF st.name \in DOMAIN g.reversedEdges
                                      THEN g.reversedEdges
                                      ELSE MapSet(g.reversedEdges, st.name, <<>>)]
         IN  BuildFrom(AddDependencies(g1, st.name, st.dependsOn), Tail(statements))

buildStatementGraph(statements) == BuildFrom(EmptyGraph, statements)

RECURSIVE dfs(_, _, _, _)
RECURSIVE dfsEach(_, _, _, _)

\* dfs that keeps the cycle of a node with itself
dfsSelfLoopKept(g, node, path, st) ==
    IF node \in st.recursionStack
    THEN LET cycleStart == IndexOf(path, node)
             cycle == Slice(path, cycleStart) \o <<node>>
         IN  [st EXCEPT !.cycles = Append(@, cycle)]
    ELSE IF node \in st.visited
    THEN st
    ELSE LET st1 == [st EXCEPT !.visited = @ \cup {node},
                               !.recursionStack = @ \cup {node}]
             st2 == dfsEach(g, MapGet(g.edges, node), Append(path, node), st1)
         IN  [st2 EXCEPT !.recursionStack = @ \ {node}]

\* dfs that tests visited before recursionStack
dfsVisitedFirst(g, node, path, st) ==
    IF node \in st.visited
    THEN st
    ELSE LET st1 == [st EXCEPT !.visited = @ \cup {node},
                               !.recursionStack = @ \cup {node}]
             st2 == dfsEach(g, MapGet(g.edges, node), Append(path, node), st1)
         IN  [st2 EXCEPT !.recursionStack = @ \ {node}]

\* detectCycles: st = [visited, recursionStack, cycles]
dfs(g, node, path, st) ==
    IF node \in st.recursionStack
    THEN LET cycleStart == IndexOf(path, node)
             cycle == Slice(path, cycleStart) \o <<node>>
         IN  IF Len(cycle) = 2 /\ cycle[1] = cycle[2]
             THEN st
             ELSE [st EXCEPT !.cycles = Append(@, cycle)]
    ELSE IF node \in st.visited
    THEN st
    ELSE LET st1 == [st EXCEPT !.visited = @ \cup {node},
                               !.recursionStack = @ \cup {node}]
             st2 == dfsEach(g, MapGet(g.edges, node), Append(path, node), st1)
         IN  [st2 EXCEPT !.recursionStack = @ \ {node}]

dfsEach(g, deps, path, st) ==
    IF deps = <<>> THEN st
    ELSE dfsEach(g, Tail(deps), path, dfs(g, Head(deps), path, st))

RECURSIVE dfsRoots(_, _, _)
dfsRoots(g, nodes, st) ==
    IF nodes = <<>> THEN st
    ELSE dfsRoots(g, Tail(nodes),
                  IF Head(nodes) \in st.visited THEN st
                  ELSE dfs(g, Head(nodes), <<>>, st))

detectCycles(g) ==
    dfsRoots(g, g.nodes,
             [visited |-> {}, recursionStack |-> {}, cycles |-> <<>>]).cycles

\* validateNoDuplicateNames: st = [nameToFile, duplicates]; the duplicates found
RECURSIVE ScanNames(_, _)
ScanNames(statements, st) ==
    IF statements = <<>> THEN st.duplicates
    ELSE LET name == Head(statements).name
             fileName == BaseName(Head(statements).filePath)
             existingFile == MapGet(st.nameToFile, name)
             at == CHOOSE i \in DOMAIN st.duplicates : st.duplicates[i].name = name
             st1 ==
               IF name \in DOMAIN st.nameToFile
               THEN IF existingFile = ""
                    THEN st
                    ELSE IF \E i \in DOMAIN st.duplicates : st.duplicates[i].name = name
                    THEN IF fileName \in Range(st.duplicates[at].files)
                         THEN st
                         ELSE [st EXCEPT !.duplicates[at].files = Append(@, fileName)]
                    ELSE [st EXCEPT !.duplicates =
                             Append(@, [name |-> name,
                                        files |-> <<existingFile, fileName>>])]
               ELSE [st EXCEPT !.nameToFile = MapSet(@, name, fileName)]
         IN  ScanNames(Tail(statements), st1)

validateNoDuplicateNames(statements) ==
    ScanNames(statements, [nameToFile |-> EmptyMap, duplicates |-> <<>>])

\* ------------------------------------------------------ topological sorter
\* StatementMapGet in which the first statement of a name wins
StatementMapGetFirst(statements, name) ==
    LET hits == {i \in DOMAIN statements : statements[i].name = name}
    IN  IF hits = {} THEN <<>>
        ELSE <<statements[CHOOSE i \in hits : \A j \in hits : i <= j]>>

\* the last statement of a name wins in statementMap
StatementMapGet(statements, name) ==
    LET hits == {i \in DOMAIN statements : statements[i].name = name}
    IN  IF hits = {} THEN <<>>
        ELSE <<statements[CHOOSE i \in hits : \A j \in hits : j <= i]>>

\* NonSelf that keeps the self-reference
NonSelfKept(deps, node) == deps

NonSelf(deps, node) == SelectSeq(deps, LAMBDA d : d # node)

\* InitInDegree that counts a node's dependents instead of its dependencies
RECURSIVE InitInDegreeOfDependents(_, _, _)
InitInDegreeOfDependents(g, nodes, ks) ==
    IF nodes = <<>> THEN ks
    ELSE LET node == Head(nodes)
             n == Len(NonSelf(MapGet(g.reversedEdges, node), node))
         IN  InitInDegreeOfDependents(g, Tail(nodes),
                 [inDegree |-> MapSet(ks.inDegree, node, n),
                  queue |-> IF n = 0 THEN Append(ks.queue, node) ELSE ks.queue])

\* the in-degree initialisation loop: ks = [inDegree, queue]
RECURSIVE InitInDegree(_, _, _)
InitInDegree(g, nodes, ks) ==
    IF nodes = <<>> THEN ks
    ELSE LET node == Head(nodes)
             n == Len(NonSelf(MapGet(g.edges, node), node))
         IN  InitInDegree(g, Tail(nodes),
                 [inDegree |-> MapSet(ks.inDegree, node, n),
                  queue |-> IF n = 0 THEN Append(ks.queue, node) ELSE ks.queue])

\* Release with the zero test one too early
RECURSIVE ReleaseEarly(_, _, _)
ReleaseEarly(current, dependents, ks) ==
    IF dependents = <<>> THEN ks
    ELSE LET dependent == Head(dependents)
             currentDegree == IF dependent \in DOMAIN ks.inDegree
                              THEN ks.inDegree[dependent] ELSE 0
             newDegree == currentDegree - 1
         IN  ReleaseEarly(current, Tail(dependents),
                 IF dependent = current THEN ks
                 ELSE [inDegree |-> MapSet(ks.inDegree, dependent, newDegree),
                       queue |-> IF newDegree <= 1
                                 THEN Append(ks.queue, dependent) ELSE ks.queue])

\* Release that also decrements the dequeued node when it depends on itself
RECURSIVE ReleaseSelfToo(_, _, _)
ReleaseSelfToo(current, dependents, ks) ==
    IF dependents = <<>> THEN ks
    ELSE LET dependent == Head(dependents)
             currentDegree == IF dependent \in DOMAIN ks.inDegree
                              THEN ks.inDegree[dependent] ELSE 0
             newDegree == currentDegree - 1
         IN  ReleaseSelfToo(current, Tail(dependents),
                 [inDegree |-> MapSet(ks.inDegree, dependent, newDegree),
                  queue |-> IF newDegree = 0
                            THEN Append(ks.queue, dependent) ELSE ks.queue])

\* the loop over the dependents of the dequeued node
RECURSIVE Release(_, _, _)
Release(current, dependents, ks) ==
    IF dependents = <<>> THEN ks
    ELSE LET dependent == Head(dependents)
             currentDegree == IF dependent \in DOMAIN ks.inDegree
                              THEN ks.inDegree[dependent] ELSE 0
             newDegree == currentDegree - 1
         IN  Release(current, Tail(dependents),
                 IF dependent = current THEN ks
                 ELSE [inDegree |-> MapSet(ks.inDegree, dependent, newDegree),
                       queue |-> IF newDegree = 0
                                 THEN Append(ks.queue, dependent) ELSE ks.queue])

\* Kahn that takes the node enqueued last
RECURSIVE KahnLifo(_, _, _)
KahnLifo(g, ks, sortedNames) ==
    IF ks.queue = <<>> THEN sortedNames
    ELSE LET current == ks.queue[Len(ks.queue)]
         IN  KahnLifo(g,
                  Release(current, MapGet(g.reversedEdges, current),
                          [ks EXCEPT !.queue = SubSeq(@, 1, Len(@) - 1)]),
                  Append(sortedNames, current))

\* the queue loop: the names in the order they are dequeued
RECURSIVE Kahn(_, _, _)
Kahn(g, ks, sortedNames) ==
    IF ks.queue = <<>> THEN sortedNames
    ELSE LET current == Head(ks.queue)
         IN  Kahn(g,
                  Release(current, MapGet(g.reversedEdges, current),
                          [ks EXCEPT !.queue = Tail(@)]),
                  Append(sortedNames, current))

RECURSIVE ToStatements(_, _)
ToStatements(statements, names) ==
    IF names = <<>> THEN <<>>
    ELSE StatementMapGet(statements, Head(names)) \o ToStatements(statements, Tail(names))

\* sortStatements that compares the sorted names with the statements
sortStatementsCountRecords(statements, g) ==
    LET sortedNames == Kahn(g, InitInDegree(g, g.nodes,
                                  [inDegree |-> EmptyMap, queue |-> <<>>]), <<>>)
    IN  IF Len(sortedNames) # Len(statements)
        THEN [threw |-> TRUE, statements |-> <<>>]
        ELSE [threw |-> FALSE, statements |-> ToStatements(statements, sortedNames)]

\* sortStatements that returns what it has sorted, without the final check
sortStatementsUnchecked(statements, g) ==
    LET sortedNames == Kahn(g, InitInDegree(g, g.nodes,
                                  [inDegree |-> EmptyMap, queue |-> <<>>]), <<>>)
    IN  [threw |-> FALSE, statements |-> ToStatements(statements, sortedNames)]

\* sortStatements: throws when not every node was processed
sortStatements(statements, g) ==
    LET sortedNames == Kahn(g, InitInDegree(g, g.nodes,
                                  [inDegree |-> EmptyMap, queue |-> <<>>]), <<>>)
    IN  IF Len(sortedNames) # Len(g.nodes)
        THEN [threw |-> TRUE, statements |-> <<>>]
        ELSE [threw |-> FALSE, statements |-> ToStatements(statements, sortedNames)]

\* ------------------------------------------------------------- file merger
\* MergeParts that emits the content at every statement
RECURSIVE MergePartsPerStatement(_, _)
MergePartsPerStatement(statements, processedFiles) ==
    IF statements = <<>> THEN <<>>
    ELSE Head(statements).content
           \o MergePartsPerStatement(Tail(statements), processedFiles)

\* mergeStatements: the content of a file once, at its first sorted statement
RECURSIVE MergeParts(_, _)
MergeParts(statements, processedFiles) ==
    IF statements = <<>> THEN <<>>
    ELSE LET filePath == Head(statements).filePath
         IN  IF filePath \in processedFiles
             THEN MergeParts(Tail(statements), processedFiles)
             ELSE Head(statements).content
                    \o MergeParts(Tail(statements), processedFiles \cup {filePath})

mergeStatements(statements) == MergeParts(statements, {})

\* ------------------------------------------------------------- the merger
\* #validateStatementOrderWithinFiles: the first violation, as a list of 0 or 1
FirstOf(s) == IF s = <<>> THEN <<>> ELSE <<Head(s)>>

\* OrderViolationsOfStatement that also rejects a dependency at the same position
OrderViolationsNotBefore(file, i) ==
    LET statements == file.statements
        deps == statements[i].dependsOn
        hit(k) == IndexOf([j \in DOMAIN statements |-> statements[j].name], deps[k])
        bad == SelectSeq([k \in DOMAIN deps |-> k], LAMBDA k : hit(k) >= i - 1)
    IN  [n \in DOMAIN bad |->
            [fileName |-> file.path,
             statement |-> statements[i].name, position |-> i - 1,
             dependency |-> deps[bad[n]], depIndex |-> hit(bad[n])]]

OrderViolationsOfStatement(file, i) ==
    LET statements == file.statements
        deps == statements[i].dependsOn
        hit(k) == IndexOf([j \in DOMAIN statements |-> statements[j].name], deps[k])
        bad == SelectSeq([k \in DOMAIN deps |-> k], LAMBDA k : hit(k) > i - 1)
    IN  [n \in DOMAIN bad |->
            [fileName |-> file.path,
             statement |-> statements[i].name, position |-> i - 1,
             dependency |-> deps[bad[n]], depIndex |-> hit(bad[n])]]

OrderViolationsOfFile(file) ==
    IF Len(file.statements) <= 1 THEN <<>>
    ELSE Flatten([i \in DOMAIN file.statements |-> OrderViolationsOfStatement(file, i)])

validateStatementOrderWithinFiles(sqlFiles) ==
    FirstOf(Flatten([f \in DOMAIN sqlFiles |-> OrderViolationsOfFile(sqlFiles[f])]))

\* ------------------------------------------------------------------- state
VARIABLES
    options,    \* MergeCommandOptions.allowReorderDropComments: <<>> when absent
    dir,        \* the input directory: its files, each the statements it declares
    sqlFiles,   \* the parsed SqlFile list
    graph,      \* the DependencyGraph last built
    cycles,     \* the result of detectCycles
    sorted,     \* the result of sortStatements
    output,     \* what mergeStatements wrote: [written, text]
    error,      \* the error thrown: [code, detail]
    calls,      \* the services invoked so far, in call order
    pc,         \* where the command stands
    runs,       \* the invocations made on this SqlMerger: [phase, input, other, result]
    walk,       \* the locals of a detectCycles under way
    kahn        \* the locals of a sortStatements under way

vars == <<options, dir, sqlFiles, graph, cycles, sorted, output, error, calls, pc, runs,
          walk, kahn>>

\* Configuration with the opt-out as the default
ConfigurationOptOut(opts) ==
    [allowReorderDropComments |-> IF opts = <<>> THEN TRUE ELSE opts[1]]

\* the ServiceContainer configuration the command builds from its options
Configuration(opts) ==
    [allowReorderDropComments |-> IF opts = <<>> THEN FALSE ELSE opts[1]]

NoError == [code |-> "NONE", detail |-> <<>>]
NoOutput == [written |-> FALSE, text |-> <<>>]
\* one invocation, nothing recorded of it
NoRuns == [phase |-> "only", input |-> <<>>, other |-> <<>>, result |-> <<>>]
\* no detectCycles under way: visited, recursionStack, cycles; the calls of dfs
\* that have not returned, each [node, path, dependencies left]; the nodes the
\* outer loop has left; the nodes in the order dfs marked them visited
NoWalk == [visited |-> {}, recursionStack |-> {}, cycles |-> <<>>,
           stack |-> <<>>, roots |-> <<>>, expanded |-> <<>>]
\* no sortStatements under way: inDegree, queue, sortedNames
NoKahn == [inDegree |-> EmptyMap, queue |-> <<>>, sortedNames |-> <<>>]

\* ------------------------------------------------------------------ inputs
Types == {"table"}

\* dependsOn lists of at most n names, no name twice
DepSeqs(n) ==
    UNION {{s \in [1..k -> Names] : \A i, j \in 1..k : s[i] = s[j] => i = j} : k \in 0..n}

RECURSIVE Sum(_)
Sum(s) == IF s = <<>> THEN 0 ELSE Head(s) + Sum(Tail(s))

\* the ways to spread k statements over at most MaxFiles non-empty files
Shapes(k) ==
    {sh \in UNION {[1..m -> 1..k] : m \in 0..MaxFiles} : Sum(sh) = k}

Offset(sh, f) == Sum(SubSeq(sh, 1, f - 1))

MkDir(flat, sh) ==
    [f \in DOMAIN sh |->
        [path |-> PathOf(f),
         decls |-> SubSeq(flat, Offset(sh, f) + 1, Offset(sh, f) + sh[f])]]

\* The program treats names alike, so of the directories that differ only by a
\* renaming one is kept: the declared names appear in NameOrder, first "a",
\* and a name not declared before is the next unused one.
NameIdx(n) == CHOOSE i \in DOMAIN NameOrder : NameOrder[i] = n

CanonNames(k) ==
    {ns \in [1..k -> Names] :
        \A i \in 1..k : NameIdx(ns[i]) <= 1 + Cardinality({ns[j] : j \in 1..(i - 1)})}

\* dir is a directory of at most MaxStmts statements whose dependsOn lists
\* hold at most n entries together
IsDir(n) ==
    \E k \in 0..MaxStmts :
      \E ns \in CanonNames(k), ts \in [1..k -> Types],
         ds \in {x \in [1..k -> DepSeqs(Cardinality(Names))] :
                   Sum([i \in 1..k |-> Len(x[i])]) <= n},
         sh \in Shapes(k) :
        dir = MkDir([i \in 1..k |-> [name |-> ns[i], type |-> ts[i],
                                     dependsOn |-> ds[i]]], sh)

Fresh ==
    /\ sqlFiles = <<>>
    /\ graph = EmptyGraph
    /\ cycles = <<>>
    /\ sorted = <<>>
    /\ output = NoOutput
    /\ error = NoError
    /\ calls = <<>>
    /\ pc = "start"
    /\ walk = NoWalk
    /\ kahn = NoKahn

Init ==
    /\ options \in {<<>>, <<FALSE>>, <<TRUE>>}
    /\ IsDir(MaxDeps)
    /\ Fresh
    /\ runs = NoRuns

\* ----------------------------------------------------------------- actions
Throw(code, detail) ==
    /\ error' = [code |-> code, detail |-> detail]
    /\ pc' = "failed"

\* parseSqlFiles: parseDirectory, and the NO_SQL_FILES check
ParseDirectoryStep ==
    /\ pc = "start"
    /\ sqlFiles' = ParseDirectory(dir)
    /\ calls' = Append(calls, "parseDirectory")
    /\ IF Len(sqlFiles') = 0
       THEN Throw("NO_SQL_FILES", <<>>)
       ELSE pc' = "parsedDir" /\ error' = error
    /\ UNCHANGED <<options, dir, graph, cycles, sorted, output>>
    /\ UNCHANGED <<runs, walk, kahn>>

\* ValidateNames that throws only for two or more duplicated names
ValidateNamesSeveral ==
    /\ pc = "parsedDir"
    /\ calls' = Append(calls, "validateNoDuplicateNames")
    /\ LET duplicates == validateNoDuplicateNames(AllStatements(sqlFiles))
       IN  IF Len(duplicates) > 1
           THEN Throw("DUPLICATE_STATEMENT_NAMES", duplicates)
           ELSE pc' = "namesOk" /\ error' = error
    /\ UNCHANGED <<options, dir, sqlFiles, graph, cycles, sorted, output>>
    /\ UNCHANGED <<runs, walk, kahn>>

\* parseSqlFiles: validateNoDuplicateNames(allStatements)
ValidateNames ==
    /\ pc = "parsedDir"
    /\ calls' = Append(calls, "validateNoDuplicateNames")
    /\ LET duplicates == validateNoDuplicateNames(AllStatements(sqlFiles))
       IN  IF Len(duplicates) > 0
           THEN Throw("DUPLICATE_STATEMENT_NAMES", duplicates)
           ELSE pc' = "namesOk" /\ error' = error
    /\ UNCHANGED <<options, dir, sqlFiles, graph, cycles, sorted, output>>
    /\ UNCHANGED <<runs, walk, kahn>>

\* BuildGraph that adds to the graph built last
BuildGraphKept ==
    /\ pc = "namesOk"
    /\ calls' = Append(calls, "buildStatementGraph")
    /\ graph' = BuildFrom(graph, AllStatements(sqlFiles))
    /\ pc' = "graphBuilt"
    /\ UNCHANGED <<options, dir, sqlFiles, cycles, sorted, output, error>>
    /\ UNCHANGED <<runs, walk, kahn>>

\* BuildGraph that takes the dependencies out of the statements it reads
BuildGraphConsuming ==
    /\ pc = "namesOk"
    /\ calls' = Append(calls, "buildStatementGraph")
    /\ graph' = buildStatementGraph(AllStatements(sqlFiles))
    /\ sqlFiles' = [f \in DOMAIN sqlFiles |->
                      [sqlFiles[f] EXCEPT !.statements =
                          [i \in DOMAIN @ |-> [@[i] EXCEPT !.dependsOn = <<>>]]]]
    /\ pc' = "graphBuilt"
    /\ UNCHANGED <<options, dir, cycles, sorted, output, error>>
    /\ UNCHANGED <<runs, walk, kahn>>

\* parseSqlFiles: buildStatementGraph(allStatements)
BuildGraph ==
    /\ pc = "namesOk"
    /\ calls' = Append(calls, "buildStatementGraph")
    /\ graph' = buildStatementGraph(AllStatements(sqlFiles))
    /\ pc' = "graphBuilt"
    /\ UNCHANGED <<options, dir, sqlFiles, cycles, sorted, output, error>>
    /\ UNCHANGED <<runs, walk, kahn>>

\* ValidateOrder with the test of the configuration inverted
ValidateOrderInverted ==
    /\ pc = "graphBuilt"
    /\ IF Configuration(options).allowReorderDropComments
       THEN /\ calls' = Append(calls, "validateStatementOrderWithinFiles")
            /\ LET violation == validateStatementOrderWithinFiles(sqlFiles)
               IN  IF violation # <<>>
                   THEN Throw("INVALID_STATEMENT_ORDER", violation)
                   ELSE pc' = "orderOk" /\ error' = error
       ELSE /\ calls' = calls
            /\ pc' = "orderOk"
            /\ error' = error
    /\ UNCHANGED <<options, dir, sqlFiles, graph, cycles, sorted, output>>
    /\ UNCHANGED <<runs, walk, kahn>>

\* parseSqlFiles: the in-file order check, unless the configuration opts out
ValidateOrder ==
    /\ pc = "graphBuilt"
    /\ IF ~Configuration(options).allowReorderDropComments
       THEN /\ calls' = Append(calls, "validateStatementOrderWithinFiles")
            /\ LET violation == validateStatementOrderWithinFiles(sqlFiles)
               IN  IF violation # <<>>
                   THEN Throw("INVALID_STATEMENT_ORDER", violation)
                   ELSE pc' = "orderOk" /\ error' = error
       ELSE /\ calls' = calls
            /\ pc' = "orderOk"
            /\ error' = error
    /\ UNCHANGED <<options, dir, sqlFiles, graph, cycles, sorted, output>>
    /\ UNCHANGED <<runs, walk, kahn>>

\* parseSqlFiles: detectCycles(graph), and the files returned
DetectCycles ==
    /\ pc = "orderOk"
    /\ calls' = Append(calls, "detectCycles")
    /\ cycles' = detectCycles(graph)
    /\ IF Len(cycles') > 0
       THEN Throw("CIRCULAR_DEPENDENCY", cycles')
       ELSE pc' = "parsed" /\ error' = error
    /\ UNCHANGED <<options, dir, sqlFiles, graph, sorted, output>>
    /\ UNCHANGED <<runs, walk, kahn>>

\* mergeFiles, called where the caller stands at `at`: build the graph, sort,
\* merge
MergeFilesFrom(at) ==
    /\ pc = at
    /\ IF Len(sqlFiles) = 0
       THEN /\ pc' = "done"
            /\ UNCHANGED <<graph, sorted, output, error, calls>>
       ELSE LET allStatements == AllStatements(sqlFiles)
                g == buildStatementGraph(allStatements)
                res == sortStatements(allStatements, g)
            IN  /\ graph' = g
                /\ IF res.threw
                   THEN /\ Throw("SORT_FAILED", <<>>)
                        /\ calls' = calls \o <<"buildStatementGraph", "sortStatements">>
                        /\ UNCHANGED <<sorted, output>>
                   ELSE /\ sorted' = res.statements
                        /\ calls' = calls \o <<"buildStatementGraph", "sortStatements",
                                               "mergeStatements">>
                        /\ output' = IF Len(res.statements) = 0 THEN NoOutput
                                     ELSE [written |-> TRUE,
                                           text |-> mergeStatements(res.statements)]
                        /\ pc' = "done"
                        /\ error' = error
    /\ UNCHANGED <<options, dir, sqlFiles, cycles>>
    /\ UNCHANGED <<runs, walk, kahn>>

\* executeMergeCommand: mergeFiles on the files parseSqlFiles returned
MergeFiles == MergeFilesFrom("parsed")

Next ==
    \/ ParseDirectoryStep
    \/ ValidateNames
    \/ BuildGraph
    \/ ValidateOrder
    \/ DetectCycles
    \/ MergeFiles

Spec == Init /\ [][Next]_vars

\* ------------------------------------------------- the services called alone
\* fileParser.parseDirectory, no validation
ParseOnly ==
    /\ pc = "start"
    /\ sqlFiles' = ParseDirectory(dir)
    /\ calls' = Append(calls, "parseDirectory")
    /\ pc' = "files"
    /\ UNCHANGED <<options, dir, graph, cycles, sorted, output, error>>
    /\ UNCHANGED <<runs, walk, kahn>>

\* dependencyAnalyzer.buildStatementGraph(allStatements)
BuildCall ==
    /\ pc = "files"
    /\ graph' = buildStatementGraph(AllStatements(sqlFiles))
    /\ calls' = Append(calls, "buildStatementGraph")
    /\ pc' = "built"
    /\ UNCHANGED <<options, dir, sqlFiles, cycles, sorted, output, error>>
    /\ UNCHANGED <<runs, walk, kahn>>

\* dependencyAnalyzer.detectCycles(graph)
DetectCall ==
    /\ pc = "built"
    /\ cycles' = detectCycles(graph)
    /\ calls' = Append(calls, "detectCycles")
    /\ pc' = "detected"
    /\ UNCHANGED <<options, dir, sqlFiles, graph, sorted, output, error>>
    /\ UNCHANGED <<runs, walk, kahn>>

\* topologicalSorter.sortStatements(allStatements, graph)
SortCall ==
    /\ pc = "detected"
    /\ calls' = Append(calls, "sortStatements")
    /\ LET res == sortStatements(AllStatements(sqlFiles), graph)
       IN  IF res.threw
           THEN Throw("SORT_FAILED", <<>>) /\ sorted' = sorted
           ELSE sorted' = res.statements /\ pc' = "sortReturned" /\ error' = error
    /\ UNCHANGED <<options, dir, sqlFiles, graph, cycles, output>>
    /\ UNCHANGED <<runs, walk, kahn>>

InitCalls ==
    /\ options = <<>>
    /\ IsDir(MaxDeps)
    /\ Fresh
    /\ runs = NoRuns

NextCalls == ParseOnly \/ BuildCall \/ DetectCall \/ SortCall

SpecCalls == InitCalls /\ [][NextCalls]_vars

\* A hand-made graph, as the unit tests build them: the nodes in any order,
\* every node with its edges in any order, reversedEdges the inverse of edges
NodeSeqs == DepSeqs(Cardinality(Names))

Dependents(nodes, edges, n) == SelectSeq(nodes, LAMBDA m : n \in Range(edges[m]))

IsGraph ==
    \E nodes \in NodeSeqs :
      \E edges \in [Range(nodes) -> {e \in NodeSeqs : Range(e) \subseteq Range(nodes)}] :
        graph = [nodes |-> nodes, edges |-> edges,
                 reversedEdges |-> [n \in Range(nodes) |-> Dependents(nodes, edges, n)]]

InitGraph ==
    /\ options = <<>>
    /\ dir = <<>>
    /\ sqlFiles = <<>>
    /\ IsGraph
    /\ cycles = <<>>
    /\ sorted = <<>>
    /\ output = NoOutput
    /\ error = NoError
    /\ calls = <<>>
    /\ pc = "built"
    /\ runs = NoRuns
    /\ walk = NoWalk
    /\ kahn = NoKahn

NextGraph == DetectCall \/ SortCall

SpecGraph == InitGraph /\ [][NextGraph]_vars

\* ------------------------------------ several invocations on one SqlMerger
\* The services of a SqlMerger are singletons of its container and hold no
\* field but the logger, and every stage assigns its own locals: a further
\* invocation starts with whatever the last one left behind.
RunStmts == Cardinality(Names) - 1
RunDeps == MaxDeps - 3

\* the directories of at most RunStmts statements whose dependsOn lists hold
\* at most RunDeps entries together
RunDirs ==
    UNION {{MkDir([i \in 1..k |-> [name |-> ns[i], type |-> "table",
                                   dependsOn |-> ds[i]]], sh) :
               ns \in CanonNames(k),
               ds \in {x \in [1..k -> DepSeqs(RunDeps)] :
                         Sum([i \in 1..k |-> Len(x[i])]) <= RunDeps},
               sh \in Shapes(k)} : k \in 0..RunStmts}

\* what an invocation that has ended gave its caller
Outcome ==
    [code |-> error.code, detail |-> error.detail,
     sorted |-> IF pc = "done" THEN sorted ELSE <<>>,
     text |-> IF pc = "done" THEN output.text ELSE <<>>]

\* parseSqlFiles and mergeFiles are called on another directory
OtherInvocation ==
    /\ pc \in {"done", "failed"}
    /\ runs.phase = "first"
    /\ \E d \in RunDirs :
          /\ dir' = d
          /\ runs' = [phase |-> "other", input |-> dir, other |-> d, result |-> Outcome]
    /\ pc' = "start"
    /\ error' = NoError
    /\ calls' = <<>>
    /\ UNCHANGED <<options, sqlFiles, graph, cycles, sorted, output, walk, kahn>>

\* parseSqlFiles and mergeFiles are called on the first directory again
SameInvocationAgain ==
    /\ pc \in {"done", "failed"}
    /\ runs.phase = "other"
    /\ dir' = runs.input
    /\ runs' = [runs EXCEPT !.phase = "again"]
    /\ pc' = "start"
    /\ error' = NoError
    /\ calls' = <<>>
    /\ UNCHANGED <<options, sqlFiles, graph, cycles, sorted, output, walk, kahn>>

InitRuns ==
    /\ options \in {<<>>, <<FALSE>>, <<TRUE>>}
    /\ dir \in RunDirs
    /\ Fresh
    /\ runs = [phase |-> "first", input |-> dir, other |-> <<>>, result |-> <<>>]

NextRuns ==
    \/ ParseDirectoryStep
    \/ ValidateNames
    \/ BuildGraph
    \/ ValidateOrder
    \/ DetectCycles
    \/ MergeFiles
    \/ OtherInvocation
    \/ SameInvocationAgain

SpecRuns == InitRuns /\ [][NextRuns]_vars

\* ------------------------------------- files of tables, views and sequences
\* the statement types of the default configuration
AllTypes == {Processors[p] : p \in DOMAIN Processors}
TypedStmts == Cardinality(Names) - 1
TypedDeps == MaxDeps - 2

\* the directories of at most TypedStmts statements of any type whose
\* dependsOn lists hold at most n entries together; the sequence processor
\* gives a sequence no dependency
TypedDirs(n) ==
    UNION {{MkDir([i \in 1..k |-> [name |-> ns[i], type |-> ts[i],
                                   dependsOn |-> IF ts[i] = "sequence" THEN <<>>
                                                 ELSE ds[i]]], sh) :
               ns \in CanonNames(k),
               ts \in [1..k -> AllTypes],
               ds \in {x \in [1..k -> DepSeqs(n)] :
                         Sum([i \in 1..k |-> Len(x[i])]) <= n},
               sh \in Shapes(k)} : k \in 0..TypedStmts}

InitTypes ==
    /\ options \in {<<>>, <<FALSE>>, <<TRUE>>}
    /\ dir \in TypedDirs(TypedDeps)
    /\ Fresh
    /\ runs = NoRuns

SpecTypes == InitTypes /\ [][Next]_vars

\* ------------------------------------------------- mergeFiles called alone
\* merger.mergeFiles on the files of fileParser.parseDirectory, no validation
MergeFilesCall == MergeFilesFrom("files")

NextMerge == ParseOnly \/ MergeFilesCall

SpecMerge == InitCalls /\ [][NextMerge]_vars

\* ------------------------------------------- dependsOn lists with repeats
\* dependsOn lists of at most n names, a name any number of times: the table
\* processor gives the target of a constraint-level FOREIGN KEY twice
RepeatSeqs(n) == UNION {[1..k -> Names] : k \in 0..n}

\* the directories whose dependsOn lists hold at most n entries together,
\* repeated entries included
RepeatDirs(n) ==
    UNION {{MkDir([i \in 1..kt[1] |->
                      [name |-> ns[i], type |-> "table",
                       dependsOn |-> SubSeq(flat, Offset(ls, i) + 1, Offset(ls, i) + ls[i])]],
                  sh) :
               ns \in CanonNames(kt[1]),
               ls \in {l \in [1..kt[1] -> 0..kt[2]] : Sum(l) = kt[2]},
               flat \in [1..kt[2] -> Names],
               sh \in Shapes(kt[1])} : kt \in (0..MaxStmts) \X (0..n)}

InitRepeats ==
    /\ options = <<>>
    /\ dir \in RepeatDirs(MaxDeps - 1)
    /\ Fresh
    /\ runs = NoRuns

SpecRepeats == InitRepeats /\ [][NextCalls]_vars

\* ------------------------------------------------ the services step by step
\* the directories of one file whose dependsOn lists hold at most n entries
\* together
StepDirs(n) ==
    UNION {{MkDir([i \in 1..k |-> [name |-> ns[i], type |-> "table",
                                   dependsOn |-> ds[i]]], sh) :
               ns \in CanonNames(k),
               ds \in {x \in [1..k -> DepSeqs(Cardinality(Names))] :
                         Sum([i \in 1..k |-> Len(x[i])]) <= n},
               sh \in {s \in Shapes(k) : Len(s) <= 1}} : k \in 0..MaxStmts}

\* Expand that does not mark the node visited
ExpandUnmarked(w, node, path) ==
    [w EXCEPT !.recursionStack = @ \cup {node},
              !.expanded = Append(@, node),
              !.stack = Append(@, [node |-> node, path |-> path,
                                   deps |-> MapGet(graph.edges, node)])]

\* dfs marks the node and starts the loop over its dependencies
Expand(w, node, path) ==
    [w EXCEPT !.visited = @ \cup {node},
              !.recursionStack = @ \cup {node},
              !.expanded = Append(@, node),
              !.stack = Append(@, [node |-> node, path |-> path,
                                   deps |-> MapGet(graph.edges, node)])]

\* the call dfs(node, path): it returns at once for a node on the recursion
\* stack or visited, and marks any other node
CallDfs(w, node, path) ==
    IF node \in w.recursionStack \/ node \in w.visited
    THEN [w EXCEPT !.cycles =
             dfs(graph, node, path,
                 [visited |-> w.visited, recursionStack |-> w.recursionStack,
                  cycles |-> w.cycles]).cycles]
    ELSE Expand(w, node, path)

\* detectCycles is called: its locals are set up
DfsBegin ==
    /\ pc = "built"
    /\ walk' = [NoWalk EXCEPT !.roots = graph.nodes]
    /\ pc' = "dfs"
    /\ UNCHANGED <<options, dir, sqlFiles, graph, cycles, sorted, output, error, calls>>
    /\ UNCHANGED <<runs, kahn>>

\* one step of detectCycles: the innermost dfs takes its next dependency or
\* returns; with no dfs under way the outer loop takes its next node
DfsStep ==
    /\ pc = "dfs"
    /\ IF walk.stack # <<>>
       THEN LET top == walk.stack[Len(walk.stack)]
            IN  IF top.deps = <<>>
                THEN walk' = [walk EXCEPT !.stack = SubSeq(@, 1, Len(@) - 1),
                                          !.recursionStack = @ \ {top.node}]
                ELSE walk' = CallDfs([walk EXCEPT !.stack[Len(walk.stack)].deps = Tail(@)],
                                     Head(top.deps), Append(top.path, top.node))
       ELSE /\ walk.roots # <<>>
            /\ walk' = IF Head(walk.roots) \in walk.visited
                       THEN [walk EXCEPT !.roots = Tail(@)]
                       ELSE CallDfs([walk EXCEPT !.roots = Tail(@)], Head(walk.roots), <<>>)
    /\ UNCHANGED <<options, dir, sqlFiles, graph, cycles, sorted, output, error, calls, pc>>
    /\ UNCHANGED <<runs, kahn>>

\* detectCycles returns its cycles
DfsEnd ==
    /\ pc = "dfs"
    /\ walk.stack = <<>>
    /\ walk.roots = <<>>
    /\ cycles' = walk.cycles
    /\ calls' = Append(calls, "detectCycles")
    /\ pc' = "detected"
    /\ UNCHANGED <<options, dir, sqlFiles, graph, sorted, output, error>>
    /\ UNCHANGED <<runs, walk, kahn>>

\* sortStatements is called: the in-degrees are set and the queue is seeded
SortBegin ==
    /\ pc = "detected"
    /\ LET ks == InitInDegree(graph, graph.nodes, [inDegree |-> EmptyMap, queue |-> <<>>])
       IN  kahn' = [inDegree |-> ks.inDegree, queue |-> ks.queue, sortedNames |-> <<>>]
    /\ pc' = "sorting"
    /\ UNCHANGED <<options, dir, sqlFiles, graph, cycles, sorted, output, error, calls>>
    /\ UNCHANGED <<runs, walk>>

\* one turn of the queue loop: a node is dequeued and its dependents released
SortStep ==
    /\ pc = "sorting"
    /\ kahn.queue # <<>>
    /\ LET current == Head(kahn.queue)
           ks == Release(current, MapGet(graph.reversedEdges, current),
                         [inDegree |-> kahn.inDegree, queue |-> Tail(kahn.queue)])
       IN  kahn' = [inDegree |-> ks.inDegree, queue |-> ks.queue,
                    sortedNames |-> Append(kahn.sortedNames, current)]
    /\ UNCHANGED <<options, dir, sqlFiles, graph, cycles, sorted, output, error, calls, pc>>
    /\ UNCHANGED <<runs, walk>>

\* the queue is empty: sortStatements throws or returns the statements
SortEnd ==
    /\ pc = "sorting"
    /\ kahn.queue = <<>>
    /\ calls' = Append(calls, "sortStatements")
    /\ IF Len(kahn.sortedNames) # Len(graph.nodes)
       THEN Throw("SORT_FAILED", <<>>) /\ sorted' = sorted
       ELSE /\ sorted' = ToStatements(AllStatements(sqlFiles), kahn.sortedNames)
            /\ pc' = "sortReturned"
            /\ error' = error
    /\ UNCHANGED <<options, dir, sqlFiles, graph, cycles, output>>
    /\ UNCHANGED <<runs, walk, kahn>>

\* the directory is parsed and its graph is built
InitSteps ==
    /\ options = <<>>
    /\ dir \in StepDirs(MaxDeps)
    /\ sqlFiles = ParseDirectory(dir)
    /\ graph = buildStatementGraph(AllStatements(sqlFiles))
    /\ cycles = <<>>
    /\ sorted = <<>>
    /\ output = NoOutput
    /\ error = NoError
    /\ calls = <<"parseDirectory", "buildStatementGraph">>
    /\ pc = "built"
    /\ runs = NoRuns
    /\ walk = NoWalk
    /\ kahn = NoKahn

NextSteps ==
    \/ DfsBegin
    \/ DfsStep
    \/ DfsEnd
    \/ SortBegin
    \/ SortStep
    \/ SortEnd

SpecSteps == InitSteps /\ [][NextSteps]_vars

\* every call made is carried on until it returns or throws
SpecStepsFair == SpecSteps /\ WF_vars(NextSteps)

\* ============================================================== properties
\* the records handed to the analyzer and the sorter
Records == AllStatements(sqlFiles)
RecordNames == LET r == Records IN {r[i].name : i \in DOMAIN r}
UniqueNames ==
    LET r == Records IN \A i, j \in DOMAIN r : r[i].name = r[j].name => i = j
Called(service) == service \in Range(calls)

\* the dependency edges x -> y (x depends on y) of a graph, and of the records
EdgeSet(g) == {e \in (DOMAIN g.edges) \X Names : e[2] \in Range(g.edges[e[1]])}
RecordEdges ==
    LET r == Records
    IN  UNION {{<<r[i].name, d>> : d \in Range(r[i].dependsOn)} : i \in DOMAIN r}
NonSelfEdges(E) == {e \in E : e[1] # e[2]}

RECURSIVE Grow(_, _)
Grow(R, n) ==
    IF n = 0 THEN R
    ELSE Grow(R \cup {<<pq[1][1], pq[2][2]>> : pq \in {x \in R \X R : x[1][2] = x[2][1]}},
              n - 1)
\* x reaches y over one or more edges
Closure(E) == Grow(E, Cardinality(Names))

\* a cycle through at least two distinct nodes: some non-empty set of nodes in
\* which every node has an edge to another node of the set
HasGenuineCycle(E) ==
    \E S \in (SUBSET Names) \ {{}} :
        \A n \in S : \E m \in S \ {n} : <<n, m>> \in E
OnGenuineCycle(E, n) == <<n, n>> \in Closure(NonSelfEdges(E))

SortedNames == [i \in DOMAIN sorted |-> sorted[i].name]
Before(s, x, y) == IndexOf(s, x) >= 0 /\ IndexOf(s, y) >= 0 /\ IndexOf(s, x) < IndexOf(s, y)

\* C1: for a record list with unique names and no genuine cycle, sortStatements
\* on the graph built from the list returns, and in its result every record b
\* that a record a depends on (a # b) stands before a.
C1_SortIsTopologicalOrder ==
    (Called("sortStatements") /\ UniqueNames /\ ~HasGenuineCycle(EdgeSet(graph)))
        => /\ pc = "sortReturned"
           /\ \A e \in NonSelfEdges(EdgeSet(graph)) :
                 (e[1] \in RecordNames /\ e[2] \in RecordNames)
                     => Before(SortedNames, e[2], e[1])

\* a chain of three records given dependents first, sorted into another order
C1_Witness ==
    /\ pc = "sortReturned"
    /\ UniqueNames
    /\ Len(Records) = 3
    /\ Records[2].name \in Range(Records[1].dependsOn)
    /\ Records[3].name \in Range(Records[2].dependsOn)
    /\ SortedNames = <<Records[3].name, Records[2].name, Records[1].name>>

\* C2: in the merged text of an input that passes the name, in-file order and
\* cycle validations, the definition of b stands before the definition of
\* every a that depends on b (a # b).
C2_MergedTextDependenciesFirst ==
    (pc = "done" /\ validateStatementOrderWithinFiles(sqlFiles) = <<>>)
        => \A e \in NonSelfEdges(RecordEdges) :
              e[2] \in RecordNames => Before(output.text, e[2], e[1])

\* the non-self edges of g are one cycle through its three nodes
IsThreeCycle(g) ==
    /\ Len(g.nodes) = 3
    /\ \E x, y, z \in Range(g.nodes) :
          /\ x # y /\ y # z /\ x # z
          /\ NonSelfEdges(EdgeSet(g)) = {<<x, y>>, <<y, z>>, <<z, x>>}

\* C3: detectCycles returns a non-empty list exactly for the graphs with a
\* cycle through two or more distinct nodes, and for a graph whose non-self
\* edges are one cycle A -> B -> C -> A some reported cycle holds exactly
\* A, B and C, in every node and edge order.
C3_DetectCyclesIffGenuineCycle ==
    Called("detectCycles")
        => /\ (cycles # <<>>) <=> HasGenuineCycle(EdgeSet(graph))
           /\ IsThreeCycle(graph)
                 => \E i \in DOMAIN cycles : Range(cycles[i]) = Range(graph.nodes)

\* a three-node cycle whose nodes also reference themselves, visited from its
\* last node backwards
C3_Witness ==
    /\ Called("detectCycles")
    /\ IsThreeCycle(graph)
    /\ \E n \in Range(graph.nodes) : n \in Range(graph.edges[n])
    /\ graph.edges[graph.nodes[1]][1] = graph.nodes[3]
    /\ Len(cycles) = 1

\* C4 as stated: a record whose dependsOn holds its own name is in no reported
\* cycle, and the sorter puts it after its other dependencies.
C4_SelfReferencingNeverReported ==
    Called("detectCycles")
        => \A e \in RecordEdges :
              e[1] = e[2]
                  => /\ \A i \in DOMAIN cycles : e[1] \notin Range(cycles[i])
                     /\ pc = "sortReturned"
                           => \A d \in NonSelfEdges(RecordEdges) :
                                 (d[1] = e[1] /\ d[2] \in RecordNames)
                                     => Before(SortedNames, d[2], d[1])

\* C4 amended: a self-referencing record is in a reported cycle only when it
\* lies on a cycle through another node, no reported cycle is [n, n], the
\* self-reference never makes the sorter fail, and the sorter puts the record
\* after its other dependencies.
C4_SelfReferenceTolerated ==
    Called("detectCycles")
        => /\ \A i \in DOMAIN cycles : Cardinality(Range(cycles[i])) >= 2
           /\ \A e \in RecordEdges :
                 e[1] = e[2]
                     => /\ \A i \in DOMAIN cycles :
                              e[1] \in Range(cycles[i]) => OnGenuineCycle(EdgeSet(graph), e[1])
                        /\ (Called("sortStatements") /\ ~HasGenuineCycle(EdgeSet(graph)))
                              => pc = "sortReturned"
                        /\ pc = "sortReturned"
                              => \A d \in NonSelfEdges(RecordEdges) :
                                    (d[1] = e[1] /\ d[2] \in RecordNames)
                                        => Before(SortedNames, d[2], d[1])

\* a record that references itself and a record declared after it, sorted
C4_Witness ==
    /\ pc = "sortReturned"
    /\ Len(Records) >= 2
    /\ Records[1].name \in Range(Records[1].dependsOn)
    /\ Records[2].name \in Range(Records[1].dependsOn)
    /\ Records[2].name # Records[1].name
    /\ cycles = <<>>

\* -------------------------------------------------- the merge command's runs
FlagOn == options = <<TRUE>>
FlagOff == options = <<>> \/ options = <<FALSE>>
ParseFinished == pc \in {"failed", "parsed", "done"}

\* the names declared in two or more distinct source files
CrossFileDupNames ==
    LET r == Records
    IN  {n \in Names :
            \E i, j \in DOMAIN r :
                /\ r[i].name = n /\ r[j].name = n
                /\ r[i].filePath # r[j].filePath}

\* file f holds, after position i, a statement that position i depends on
LaterInFile(f, i, j) ==
    /\ i < j
    /\ sqlFiles[f].statements[j].name \in Range(sqlFiles[f].statements[i].dependsOn)

HasOrderViolation ==
    \E f \in DOMAIN sqlFiles :
        /\ Len(sqlFiles[f].statements) > 1
        /\ \E i, j \in DOMAIN sqlFiles[f].statements : LaterInFile(f, i, j)

\* the error detail names a file, a statement with its position and one of its
\* dependencies with its later position (positions from 0)
DetailIsOrderViolation ==
    /\ Len(error.detail) = 1
    /\ \E f \in DOMAIN sqlFiles :
        \E i, j \in DOMAIN sqlFiles[f].statements :
            /\ LaterInFile(f, i, j)
            /\ error.detail[1] = [fileName |-> sqlFiles[f].path,
                                  statement |-> sqlFiles[f].statements[i].name,
                                  position |-> i - 1,
                                  dependency |-> sqlFiles[f].statements[j].name,
                                  depIndex |-> j - 1]

\* c is a closed chain of E through two or more distinct nodes
ClosedChain(c, E) ==
    /\ Len(c) >= 3
    /\ c[1] = c[Len(c)]
    /\ \A i \in 1..(Len(c) - 1) : <<c[i], c[i + 1]>> \in E
    /\ \A i, j \in 1..(Len(c) - 1) : c[i] = c[j] => i = j

\* the stages before cycle detection raise nothing
EarlierStagesPass ==
    /\ validateNoDuplicateNames(Records) = <<>>
    /\ FlagOn \/ validateStatementOrderWithinFiles(sqlFiles) = <<>>

\* C5: an input with a genuine cycle that the earlier stages let through fails
\* with CIRCULAR_DEPENDENCY, the error holds a closed chain of the input's
\* dependencies, and the sorter is never invoked.
C5_CycleFailsBeforeSort ==
    (Called("parseDirectory") /\ EarlierStagesPass /\ HasGenuineCycle(RecordEdges))
        => /\ ~Called("sortStatements")
           /\ ~Called("mergeStatements")
           /\ ParseFinished
                => /\ error.code = "CIRCULAR_DEPENDENCY"
                   /\ \E i \in DOMAIN error.detail : ClosedChain(error.detail[i], RecordEdges)

\* three statements in two files that depend on each other in a ring
C5_Witness ==
    /\ error.code = "CIRCULAR_DEPENDENCY"
    /\ Len(sqlFiles) = 2
    /\ Len(error.detail) = 1
    /\ Len(error.detail[1]) = 4
    /\ ~Called("sortStatements")

\* C6: validateNoDuplicateNames fails exactly when a name is declared in two
\* or more distinct source files, and the error lists exactly those names.
C6_DuplicateNameIffCrossFile ==
    Called("validateNoDuplicateNames")
        => /\ (error.code = "DUPLICATE_STATEMENT_NAMES") <=> (CrossFileDupNames # {})
           /\ error.code = "DUPLICATE_STATEMENT_NAMES"
                => {error.detail[i].name : i \in DOMAIN error.detail} = CrossFileDupNames

\* C7: when no name is repeated in another file than that of its first
\* occurrence, validateNoDuplicateNames does not fail.
C7_SameFileRepeatNotFlagged ==
    (/\ Called("validateNoDuplicateNames")
     /\ \A i, j \in DOMAIN Records :
           (i < j /\ Records[i].name = Records[j].name)
               => Records[j].filePath = Records[i].filePath)
        => error.code # "DUPLICATE_STATEMENT_NAMES"

NamesAndCyclesEnforced ==
    /\ ParseFinished /\ CrossFileDupNames # {} => error.code = "DUPLICATE_STATEMENT_NAMES"
    /\ pc \in {"parsed", "done"}
          => /\ ~HasGenuineCycle(RecordEdges)
             /\ Called("validateNoDuplicateNames")
             /\ Called("detectCycles")

\* C9 as stated: with allowReorderDropComments = true parsing never fails with
\* INVALID_STATEMENT_ORDER while duplicate names and cycles still fail it;
\* with the flag false or absent the in-file order check is always run.
C9_OptOutSkipsOnlyOrderCheck ==
    /\ FlagOn => error.code # "INVALID_STATEMENT_ORDER"
    /\ FlagOn => NamesAndCyclesEnforced
    /\ (FlagOff /\ ParseFinished) => Called("validateStatementOrderWithinFiles")

\* C9 amended: with the flag false or absent the in-file order check is run
\* on every input that gets past the duplicate-name check.
C9_OptOutSkipsOnlyOrderCheckAfterNames ==
    /\ FlagOn => error.code # "INVALID_STATEMENT_ORDER"
    /\ FlagOn => ~Called("validateStatementOrderWithinFiles")
    /\ FlagOn => NamesAndCyclesEnforced
    /\ (FlagOff /\ ParseFinished /\ Called("buildStatementGraph"))
          => Called("validateStatementOrderWithinFiles")
    /\ (FlagOff /\ pc \in {"parsed", "done"}) => ~HasOrderViolation

\* the opt-out lets a file through that declares a dependent first
C9_Witness ==
    /\ FlagOn
    /\ pc = "done"
    /\ HasOrderViolation

\* the services in the order the merge command calls them
StageOrder ==
    <<"parseDirectory", "validateNoDuplicateNames", "buildStatementGraph">>
    \o (IF FlagOn THEN <<>> ELSE <<"validateStatementOrderWithinFiles">>)
    \o <<"detectCycles", "buildStatementGraph", "sortStatements", "mergeStatements">>

\* C10: the stages run in the order name uniqueness, graph build, in-file
\* order, cycle detection, sort; an input that violates several checks fails
\* with the error of the earliest one, and a duplicate name is reported before
\* any graph is built or sorted.
C10_EarliestStageFails ==
    /\ Len(calls) <= Len(StageOrder) /\ calls = SubSeq(StageOrder, 1, Len(calls))
    /\ ParseFinished
          => /\ CrossFileDupNames # {} => error.code = "DUPLICATE_STATEMENT_NAMES"
             /\ (UniqueNames /\ FlagOff /\ HasOrderViolation)
                   => error.code = "INVALID_STATEMENT_ORDER"
             /\ (UniqueNames /\ (FlagOn \/ ~HasOrderViolation) /\ HasGenuineCycle(RecordEdges))
                   => error.code = "CIRCULAR_DEPENDENCY"
    /\ error.code = "DUPLICATE_STATEMENT_NAMES"
          => /\ ~Called("buildStatementGraph")
             /\ ~Called("sortStatements")
             /\ graph = EmptyGraph
             /\ sorted = <<>>

\* a name in two files, a dependency declared after its dependent and a cycle
C10_Witness ==
    /\ FlagOff
    /\ error.code = "DUPLICATE_STATEMENT_NAMES"
    /\ CrossFileDupNames # {}
    /\ HasOrderViolation
    /\ HasGenuineCycle(RecordEdges)

\* --------------------------------------------------- the sorter's result
\* how often r occurs in s
Count(s, r) == Cardinality({i \in DOMAIN s : s[i] = r})

\* s holds every record of t exactly as often as t does, and no other record
IsPermutation(s, t) ==
    /\ Len(s) = Len(t)
    /\ \A r \in Range(s) \cup Range(t) : Count(s, r) = Count(t, r)

\* the records that are the last of their name in the input
LastOfName == {i \in DOMAIN Records : \A j \in DOMAIN Records : Records[j].name = Records[i].name => j <= i}

\* C11 as stated: whenever sortStatements returns, its result is a permutation
\* of the input records.
C11_SortedIsPermutation ==
    pc = "sortReturned" => IsPermutation(sorted, Records)

\* C11 amended: whenever sortStatements returns, its result holds the last
\* input record of every name exactly once and no other record; it is a
\* permutation of the input records when their names are unique.
C11_SortedIsPermutationOfLastOfName ==
    pc = "sortReturned"
        => /\ IsPermutation(sorted, [i \in 1..Cardinality(LastOfName) |->
                 Records[CHOOSE k \in LastOfName :
                     Cardinality({j \in LastOfName : j < k}) = i - 1]])
           /\ UniqueNames => IsPermutation(sorted, Records)

\* three records with distinct names returned in another order than given
C11_Witness ==
    /\ pc = "sortReturned"
    /\ UniqueNames
    /\ Len(Records) = 3
    /\ sorted # Records
    /\ IsPermutation(sorted, Records)

\* ------------------------------------------------------- fail-fast output
ValidationErrors ==
    {"DUPLICATE_STATEMENT_NAMES", "INVALID_STATEMENT_ORDER", "CIRCULAR_DEPENDENCY"}

\* the input breaks one of the three validations
BreaksValidation ==
    \/ CrossFileDupNames # {}
    \/ FlagOff /\ HasOrderViolation
    \/ HasGenuineCycle(RecordEdges)

\* C12: when a validation stage (duplicate names, in-file order, cycles)
\* fails, the merger is never called and nothing is written, neither to the
\* output file nor to stdout; no input that breaks a validation is merged.
C12_NoOutputOnValidationFailure ==
    /\ error.code \in ValidationErrors
          => /\ pc = "failed"
             /\ ~Called("mergeStatements")
             /\ output = NoOutput
    /\ (Called("parseDirectory") /\ BreaksValidation)
          => /\ ~Called("mergeStatements")
             /\ output = NoOutput
    /\ output.written => (pc = "done" /\ error = NoError)

\* a run that ended in the in-file order error of a two-file input
C12_Witness ==
    /\ pc = "failed"
    /\ error.code = "INVALID_STATEMENT_ORDER"
    /\ Len(sqlFiles) = 2
    /\ output = NoOutput
    /\ ~Called("mergeStatements")

\* ------------------------------------------------------ the graph builder
\* C13: in every graph buildStatementGraph returns, y is in edges[x] exactly
\* when x is in reversedEdges[y], for all names x and y, x = y included.
C13_EdgesAndReversedEdgesInverse ==
    Called("buildStatementGraph")
        => \A x, y \in Names :
              (y \in Range(MapGet(graph.edges, x)))
                  <=> (x \in Range(MapGet(graph.reversedEdges, y)))

\* a built graph with a self-reference, an edge between two records and an
\* edge to a name that no record defines
C13_Witness ==
    /\ Called("buildStatementGraph")
    /\ \E x \in RecordNames : x \in Range(graph.edges[x])
    /\ \E x, y \in RecordNames : x # y /\ y \in Range(graph.edges[x])
    /\ \E x \in RecordNames, y \in Names \ RecordNames : y \in Range(graph.edges[x])

\* every name the records define or reference
ReferencedNames == LET r == Records IN UNION {Range(r[i].dependsOn) : i \in DOMAIN r}
AllNames == RecordNames \cup ReferencedNames

\* the graph's nodes are the defined and the referenced names, each once
NodesAreAllNames ==
    /\ Range(graph.nodes) = AllNames
    /\ Len(graph.nodes) = Cardinality(AllNames)

\* C14 as stated: buildStatementGraph never fails, its nodes are exactly the
\* record names and the referenced names, and edges[r] is exactly the set of
\* names in r.dependsOn for every record r.
C14_GraphOfRecords ==
    Called("buildStatementGraph")
        => /\ ~Called("sortStatements") => error = NoError
           /\ NodesAreAllNames
           /\ \A i \in DOMAIN Records :
                 Range(graph.edges[Records[i].name]) = Range(Records[i].dependsOn)

\* C14 amended: buildStatementGraph never fails, its nodes are exactly the
\* record names and the referenced names, and edges[n] is exactly the set of
\* names in the dependsOn of the records named n (of the one record named n
\* when names are unique), self-references included.
C14_GraphOfRecordsByName ==
    Called("buildStatementGraph")
        => /\ ~Called("sortStatements") => error = NoError
           /\ NodesAreAllNames
           /\ DOMAIN graph.edges = RecordNames
           /\ \A n \in RecordNames :
                 Range(graph.edges[n]) =
                    UNION {Range(Records[i].dependsOn) :
                              i \in {j \in DOMAIN Records : Records[j].name = n}}
           /\ UniqueNames
                 => \A i \in DOMAIN Records :
                       Range(graph.edges[Records[i].name]) = Range(Records[i].dependsOn)

\* two records, one of which references itself, the other record and a name
\* that no record defines
C14_Witness ==
    /\ Called("buildStatementGraph")
    /\ UniqueNames
    /\ Len(Records) = 2
    /\ Len(graph.nodes) = 3
    /\ \E i \in DOMAIN Records : Range(graph.edges[Records[i].name]) = Names

\* ------------------------------------------------- dangling dependencies
\* the names that are referenced and that no record defines
Dangling == ReferencedNames \ RecordNames

\* C15: a dependency on a name that no record defines causes no error in any
\* stage, is in no reported cycle, and does not keep the sort from completing:
\* an input with such a dependency and no other defect is merged, and the
\* sorted output holds exactly the input records, the dangling name absent.
C15_DanglingDependencyTolerated ==
    (ParseFinished /\ Dangling # {})
        => /\ error.code \in ValidationErrors \cup {"NONE"}
           /\ error.code = "DUPLICATE_STATEMENT_NAMES" => ~UniqueNames
           /\ error.code = "INVALID_STATEMENT_ORDER"
                 => /\ HasOrderViolation
                    /\ error.detail[1].dependency \notin Dangling
           /\ error.code = "CIRCULAR_DEPENDENCY" => HasGenuineCycle(RecordEdges)
           /\ \A i \in DOMAIN cycles : Range(cycles[i]) \cap Dangling = {}
           /\ pc = "done"
                 => /\ IsPermutation(sorted, Records)
                    /\ Range(SortedNames) \cap Dangling = {}

\* a merged input in which a record depends on another record and on a name
\* that no record defines
C15_Witness ==
    /\ pc = "done"
    /\ error = NoError
    /\ Len(Records) = 2
    /\ Dangling # {}
    /\ \E i, j \in DOMAIN Records :
          /\ i # j
          /\ Records[j].name \in Range(Records[i].dependsOn)
          /\ Range(Records[i].dependsOn) \cap Dangling # {}
    /\ Len(sorted) = 2

\* ------------------------------------------------------------- one chain
\* the duplicate-free sequences of all record names
NameChains ==
    {c \in [1..Cardinality(RecordNames) -> RecordNames] :
        \A i, j \in DOMAIN c : c[i] = c[j] => i = j}

\* the dependencies are one chain: every record of c but the first depends on
\* the record before it, and on nothing else
IsChain(c) ==
    /\ UniqueNames
    /\ Len(c) >= 2
    /\ RecordEdges = {<<c[i + 1], c[i]>> : i \in 1..(Len(c) - 1)}

\* C16: when the dependencies form a single chain, sortStatements returns the
\* records in the order of the chain, in whatever order the records are given.
C16_ChainIsSortedInChainOrder ==
    Called("sortStatements")
        => \A c \in NameChains :
              IsChain(c) => (pc = "sortReturned" /\ SortedNames = c)

\* a chain of three records given in the reverse of the chain order
C16_Witness ==
    /\ pc = "sortReturned"
    /\ Len(Records) = 3
    /\ IsChain(<<Records[3].name, Records[2].name, Records[1].name>>)
    /\ SortedNames = <<Records[3].name, Records[2].name, Records[1].name>>

SameGraph(g, h) ==
    /\ Range(g.nodes) = Range(h.nodes)
    /\ DOMAIN g.edges = DOMAIN h.edges
    /\ \A n \in DOMAIN g.edges : Range(g.edges[n]) = Range(h.edges[n])
    /\ DOMAIN g.reversedEdges = DOMAIN h.reversedEdges
    /\ \A n \in DOMAIN g.reversedEdges :
          Range(g.reversedEdges[n]) = Range(h.reversedEdges[n])

\* this step calls buildStatementGraph
BuildsGraph ==
    /\ Len(calls') > Len(calls)
    /\ "buildStatementGraph" \in Range(SubSeq(calls', Len(calls) + 1, Len(calls')))

OnlySelfLoops ==
    /\ RecordEdges # {}
    /\ \A e \in RecordEdges : e[1] = e[2]

\* the in-degrees the sorter starts from
StartInDegree(g) ==
    InitInDegree(g, g.nodes, [inDegree |-> EmptyMap, queue |-> <<>>]).inDegree

\* C19: for an input whose only dependencies are self-references, detectCycles
\* reports no cycle, every node starts with in-degree zero in the sorter, and
\* the pipeline succeeds and returns every record; a single record that
\* depends on itself is returned alone.
C19_OnlySelfLoopsSucceed ==
    (ParseFinished /\ UniqueNames /\ OnlySelfLoops)
        => /\ error = NoError
           /\ cycles = <<>>
           /\ \A n \in Range(graph.nodes) : StartInDegree(graph)[n] = 0
           /\ pc = "done"
                 => /\ IsPermutation(sorted, Records)
                    /\ output.written
                    /\ Len(Records) = 1 => SortedNames = <<Records[1].name>>

\* the merged run of a single record that depends on itself
C19_Witness ==
    /\ pc = "done"
    /\ Len(Records) = 1
    /\ Records[1].dependsOn = <<Records[1].name>>
    /\ SortedNames = <<Records[1].name>>
    /\ Called("detectCycles")

\* ------------------------------------------------------------ all cycles
\* the elementary cycles of E through two or more distinct nodes
ElementaryCycles(E) ==
    {c \in UNION {[1..k -> Names] : k \in 2..Cardinality(Names)} :
        /\ \A i, j \in DOMAIN c : c[i] = c[j] => i = j
        /\ \A i \in DOMAIN c : <<c[i], c[(i % Len(c)) + 1]>> \in E}

\* the closed chain r is the cycle c, started at one of its nodes
IsRotation(r, c) ==
    /\ Len(r) = Len(c) + 1
    /\ r[1] = r[Len(r)]
    /\ \E k \in 0..(Len(c) - 1) :
          \A i \in DOMAIN c : r[i] = c[((i - 1 + k) % Len(c)) + 1]

\* C20: every elementary cycle of two or more distinct nodes of the graph is,
\* up to rotation, in the list detectCycles returns, and so in the detail of
\* the CIRCULAR_DEPENDENCY error.
C20_AllCyclesReported ==
    Called("detectCycles")
        => /\ \A c \in ElementaryCycles(EdgeSet(graph)) :
                 \E i \in DOMAIN cycles : IsRotation(cycles[i], c)
           /\ error.code = "CIRCULAR_DEPENDENCY" => error.detail = cycles

\* --------------------------------------------- cycle detection and the sort
\* sortStatements ended with its internal error
SortFailed == pc = "failed" /\ error.code = "SORT_FAILED"

\* C21: for a graph built by buildStatementGraph, detectCycles returns an
\* empty list exactly when sortStatements returns without its internal "not
\* all nodes were processed" error; the error is raised for no graph that
\* cycle detection passed.
C21_NoCyclesIffSortCompletes ==
    (Called("buildStatementGraph") /\ Called("detectCycles") /\ Called("sortStatements"))
        => /\ (cycles = <<>>) <=> (pc = "sortReturned")
           /\ (cycles # <<>>) <=> SortFailed
           /\ cycles = <<>> => error = NoError

\* the sort failed on the built graph of two records that depend on each
\* other, one of them also on itself and on a name that no record defines
C21_Witness ==
    /\ Called("buildStatementGraph")
    /\ SortFailed
    /\ cycles # <<>>
    /\ Len(Records) = 2
    /\ UniqueNames
    /\ Dangling # {}
    /\ \E n \in RecordNames : <<n, n>> \in RecordEdges

\* ------------------------------------------------- positions in the file
\* file f declares, after its i-th statement, the statement j that the i-th
\* statement depends on
DeclaredLater(f, i, j) ==
    /\ i < j
    /\ dir[f].decls[j].name \in Range(dir[f].decls[i].dependsOn)

HasDeclaredOrderViolation ==
    \E f \in DOMAIN dir : \E i, j \in DOMAIN dir[f].decls : DeclaredLater(f, i, j)

\* C22: the in-file order validator takes a statement at its declaration
\* position in the source file, also in files that mix tables, views and
\* sequences: with the check enabled and the names unique, an input is
\* rejected with INVALID_STATEMENT_ORDER exactly when some file declares a
\* statement before one of its dependencies, so a view declared before its
\* table is rejected and a file declared dependencies-first never is.
C22_OrderCheckedAsDeclared ==
    (FlagOff /\ ParseFinished /\ UniqueNames)
        => (error.code = "INVALID_STATEMENT_ORDER") <=> HasDeclaredOrderViolation

\* ------------------------------------------------- the sorter's in-degrees
\* the distinct dependencies of n, n itself left out, that are not yet emitted
Awaited(n) ==
    {d \in Range(MapGet(graph.edges, n)) \ {n} : d \notin Range(kahn.sortedNames)}

\* the nodes enqueued so far, in the order they were enqueued
Enqueued == kahn.sortedNames \o kahn.queue

NoRepeat(s) == \A i, j \in DOMAIN s : s[i] = s[j] => i = j

C24_CyclesAreClosedPaths ==
    Called("detectCycles")
        => \A i \in DOMAIN cycles :
              /\ ClosedChain(cycles[i], EdgeSet(graph))
              /\ Cardinality(Range(cycles[i])) >= 2
              /\ cycles[i][1] = cycles[i][Len(cycles[i])]

\* two cycles reported for a graph of three nodes, one of two nodes that does
\* not start at the node the walk started from, in a graph with a self-loop
C24_Witness ==
    /\ Called("detectCycles")
    /\ Len(cycles) = 2
    /\ \E i \in DOMAIN cycles :
          /\ Len(cycles[i]) = 3
          /\ graph.nodes[1] \notin Range(cycles[i])
    /\ \E n \in Range(graph.nodes) : <<n, n>> \in EdgeSet(graph)

\* ------------------------------------------- the files of a duplicate name
\* the source files, by file name, that declare the name n
FilesDeclaring(n) ==
    LET r == Records IN {BaseName(r[i].filePath) : i \in {j \in DOMAIN r : r[j].name = n}}

\* C25: in a DUPLICATE_STATEMENT_NAMES error the file list of every
\* duplicated name holds every source file that declares the name, and each
\* of them once, whatever the number and the order of the occurrences.
C25_DuplicateFilesEachOnce ==
    error.code = "DUPLICATE_STATEMENT_NAMES"
        => \A i \in DOMAIN error.detail :
              /\ Range(error.detail[i].files) = FilesDeclaring(error.detail[i].name)
              /\ NoRepeat(error.detail[i].files)

\* -------------------------------------------------------------- termination
\* both calls have ended
DetectAndSortEnded == pc = "sortReturned" \/ SortFailed

\* no node was expanded twice by dfs or dequeued twice by the queue loop, and
\* the cycles are those of detectCycles
ExpandedAndDequeuedOnce ==
    /\ NoRepeat(walk.expanded)
    /\ Range(walk.expanded) \subseteq Range(graph.nodes)
    /\ NoRepeat(kahn.sortedNames)
    /\ Range(kahn.sortedNames) \subseteq Range(graph.nodes)
    /\ Called("detectCycles") => cycles = detectCycles(graph)

\* C26: detectCycles and sortStatements terminate on every graph, genuine
\* cycles and self-loops included: every call that is begun ends, the DFS
\* expands each node at most once and the queue loop dequeues each node at
\* most once.
C26_DetectAndSortTerminate ==
    /\ []ExpandedAndDequeuedOnce
    /\ <>DetectAndSortEnded

\* both calls ended on a graph with a cycle of two nodes and a third node
\* that depends on itself: all three were expanded, one was dequeued
C26_Witness ==
    /\ SortFailed
    /\ cycles # <<>>
    /\ Len(walk.expanded) = 3
    /\ Len(kahn.sortedNames) = 1
    /\ <<kahn.sortedNames[1], kahn.sortedNames[1]>> \in EdgeSet(graph)

\* ------------------------------------------------ mergeFiles without parsing
\* mergeFiles was called and has ended
MergeFilesEnded == pc \in {"done", "failed"}

\* C27: mergeFiles called on files that parseSqlFiles has not validated and
\* whose statements hold a genuine cycle throws the sorter's internal error:
\* the file merger is not called, nothing is written and no text is returned;
\* a merge that mergeFiles returns holds every statement name.
C27_MergeFilesThrowsOnCycle ==
    /\ (MergeFilesEnded /\ HasGenuineCycle(RecordEdges))
          => /\ SortFailed
             /\ Called("sortStatements")
             /\ ~Called("detectCycles")
             /\ ~Called("mergeStatements")
             /\ output = NoOutput
             /\ sorted = <<>>
    /\ (pc = "done" /\ Records # <<>>)
          => /\ ~HasGenuineCycle(RecordEdges)
             /\ Range(SortedNames) = RecordNames
             /\ output.written

\* mergeFiles threw on two files whose three statements depend on each other
\* in a ring
C27_Witness ==
    /\ SortFailed
    /\ ~Called("detectCycles")
    /\ Len(sqlFiles) = 2
    /\ Len(Records) = 3
    /\ UniqueNames
    /\ Cardinality(RecordEdges) = 3
    /\ \A n \in RecordNames : OnGenuineCycle(RecordEdges, n)

\* ---------------------------------------------------- the merged contents
\* the places in the sorted statements where a file occurs for the first time
FirstPlaces ==
    {i \in DOMAIN sorted : \A j \in 1..(i - 1) : sorted[j].filePath # sorted[i].filePath}

\* the k-th of these places
FirstPlace(k) == CHOOSE i \in FirstPlaces : Cardinality({j \in FirstPlaces : j < i}) = k - 1

\* the parsed file of the statement at place i
FileOf(i) == CHOOSE f \in DOMAIN sqlFiles : sqlFiles[f].path = sorted[i].filePath

\* C28: mergeStatements emits the content of every source file that has a
\* statement among the sorted statements exactly once, at the place of the
\* file's first statement in the sorted order, however many statements the
\* file holds.
C28_FileContentOnce ==
    Called("mergeStatements")
        => /\ output.text =
                 Flatten([k \in 1..Cardinality(FirstPlaces) |->
                             sqlFiles[FileOf(FirstPlace(k))].content])
           /\ Len(output.text) =
                 Sum([k \in 1..Cardinality(FirstPlaces) |->
                         Len(sqlFiles[FileOf(FirstPlace(k))].content)])
           /\ Cardinality(FirstPlaces) = Cardinality({sorted[i].filePath : i \in DOMAIN sorted})

\* a file of two statements whose content is emitted once although a
\* statement of another file is sorted between the two
C28_Witness ==
    /\ Called("mergeStatements")
    /\ Len(sqlFiles) = 2
    /\ Len(sorted) = 3
    /\ sorted[1].filePath = sorted[3].filePath
    /\ sorted[2].filePath # sorted[1].filePath
    /\ Len(output.text) = 3

\* ------------------------------------------- records without dependencies
\* the record at place i depends on no other name than its own
DependencyFree(i) == Range(Records[i].dependsOn) \subseteq {Records[i].name}

\* the name n is mentioned, as a record or as a dependency, before place i
MentionedBefore(n, i) ==
    \E k \in 1..(i - 1) : Records[k].name = n \/ n \in Range(Records[k].dependsOn)

\* C29 as stated: the records without a non-self dependency are returned in
\* their input order relative to each other, and a list of independent
\* records is returned unchanged.
C29_DependencyFreeKeepInputOrder ==
    (pc = "sortReturned" /\ UniqueNames)
        => /\ \A i, j \in DOMAIN Records :
                 (i < j /\ DependencyFree(i) /\ DependencyFree(j))
                     => Before(SortedNames, Records[i].name, Records[j].name)
           /\ NonSelfEdges(RecordEdges) = {} => sorted = Records

\* C29 amended: the records without a non-self dependency are returned in
\* the order in which the graph got their names as nodes, which is the order
\* of first mention as a record or as a dependency of an earlier record; it
\* is their input order unless the later record is mentioned before the
\* earlier one, and a list of independent records is returned unchanged.
C29_DependencyFreeKeepNodeOrder ==
    (pc = "sortReturned" /\ UniqueNames)
        => /\ \A i, j \in DOMAIN Records :
                 (i # j /\ DependencyFree(i) /\ DependencyFree(j))
                     => (Before(graph.nodes, Records[i].name, Records[j].name)
                            <=> Before(SortedNames, Records[i].name, Records[j].name))
           /\ \A i, j \in DOMAIN Records :
                 (i < j /\ DependencyFree(i) /\ DependencyFree(j)
                        /\ ~MentionedBefore(Records[j].name, i))
                     => Before(SortedNames, Records[i].name, Records[j].name)
           /\ NonSelfEdges(RecordEdges) = {} => sorted = Records

\* two records without dependencies returned in the reverse of their input
\* order: the first record of the list depends on the later of the two
C29_Witness ==
    /\ pc = "sortReturned"
    /\ UniqueNames
    /\ Len(Records) = 3
    /\ DependencyFree(2)
    /\ DependencyFree(3)
    /\ Records[1].dependsOn = <<Records[3].name>>
    /\ SortedNames = <<Records[3].name, Records[2].name, Records[1].name>>

\* ------------------------------------------------ repeated dependencies
\* s without the repetitions of its entries
RECURSIVE Dedup(_)
Dedup(s) == IF s = <<>> THEN <<>>
            ELSE <<Head(s)>> \o Dedup(SelectSeq(Tail(s), LAMBDA x : x # Head(s)))

\* the records, every dependsOn entry kept once
DedupRecords ==
    LET r == Records IN [i \in DOMAIN r |-> [r[i] EXCEPT !.dependsOn = Dedup(@)]]

\* a record names a dependency more than once
HasRepeatedDependency ==
    \E i \in DOMAIN Records : ~NoRepeat(Records[i].dependsOn)

\* C30: repeating an entry in a record's dependsOn list changes neither the
\* graph nor the cycle report nor the sorted order: they are those of the
\* records with every entry kept once, and the in-degree a node starts with
\* is the number of its distinct non-self dependencies.
C30_RepeatedDependencyNoEffect ==
    LET g == buildStatementGraph(DedupRecords)
        res == sortStatements(DedupRecords, g)
    IN  /\ Called("buildStatementGraph")
              => /\ graph = g
                 /\ \A n \in Range(graph.nodes) :
                       StartInDegree(graph)[n]
                          = Cardinality(Range(MapGet(graph.edges, n)) \ {n})
        /\ Called("detectCycles") => cycles = detectCycles(g)
        /\ Called("sortStatements")
              => /\ SortFailed <=> res.threw
                 /\ pc = "sortReturned"
                       => SortedNames = [i \in DOMAIN res.statements |-> res.statements[i].name]

\* three records sorted, one of which names one of its two dependencies twice
C30_Witness ==
    /\ pc = "sortReturned"
    /\ Len(Records) = 3
    /\ \E i \in DOMAIN Records :
          /\ Len(Records[i].dependsOn) = 3
          /\ Cardinality(Range(Records[i].dependsOn) \ {Records[i].name}) = 2
    /\ sorted # Records

====
